---- MODULE Spec2Model ----
(***************************************************************************)
(* doc_comments_ai: the driver loop of app.py (run) and the text           *)
(* post-processing of llm.py (DeepseekLLM.run, _extract_code_block,        *)
(* extract_doc_comment, insert_doc_comment).                               *)
(*                                                                         *)
(* A Python str is a sequence of one-character strings (the grave accent   *)
(* of a markdown fence is written "tick").  Positions are 0-based as in    *)
(* Python; s[a:b] is Slice(s, a, b).                                        *)
(***************************************************************************)
EXTENDS Integers, Sequences, FiniteSets, TLC

VARIABLES
    args,                           \* argparse namespace of run()
    file_bytes,                     \* the file as read at app.py:100
    treesitterNodes,                \* treesitter_parser.parse(file_bytes)
    idx,                            \* position of "for node in treesitterNodes" (1-based)
    pc,                             \* where run() stands
    response_text,                  \* response.text inside DeepseekLLM.run
    documented_method_source_code,  \* what generate_doc_comment returned
    doc_comment,                    \* what extract_doc_comment returned
    merged_code,                    \* what insert_doc_comment returned
    generated_doc_comments,         \* the dict, as the sequence of its items
    file_content,                   \* the file on disk
    item,                           \* position of the loop over generated_doc_comments.items()
    answers,                        \* what input() returned in guided mode: <<node index, answer>>
    stdout,                         \* the warnings printed so far: <<node index, kind>>
    llm_calls                       \* node indexes handed to generate_doc_comment, in order

vars == <<args, file_bytes, treesitterNodes, idx, pc, response_text,
          documented_method_source_code, doc_comment, merged_code,
          generated_doc_comments, file_content, item, answers, stdout, llm_calls>>

(***************************************************************************)
(* Bounds of the model.                                                    *)
(***************************************************************************)
MaxPieces == 5
MaxSrcLen == 3
MaxDocLen == 4
MaxLines == 2
MaxLinePieces == 2
MaxMethods == 2
MaxFileLen == 4

(***************************************************************************)
(* Python str primitives.                                                  *)
(***************************************************************************)
SetMin(S) == CHOOSE x \in S : \A y \in S : x <= y
SetMax(S) == CHOOSE x \in S : \A y \in S : x >= y

Slice(s, a, b) == SubSeq(s, a + 1, b)

\* s[i:i+len(p)] == p
HasAt(s, p, i) ==
    /\ i >= 0
    /\ i + Len(p) <= Len(s)
    /\ SubSeq(s, i + 1, i + Len(p)) = p

startswith(s, p) == HasAt(s, p, 0)
endswith(s, p) == HasAt(s, p, Len(s) - Len(p))

\* str.find(p, start): a negative start counts from the end
Find(s, p, start) ==
    LET st == IF start < 0 THEN (IF Len(s) + start < 0 THEN 0 ELSE Len(s) + start)
              ELSE start
        hits == {i \in st..(Len(s) - Len(p)) : HasAt(s, p, i)}
    IN  IF hits = {} THEN -1 ELSE SetMin(hits)

\* str.rfind(p)
RFind(s, p) ==
    LET hits == {i \in 0..(Len(s) - Len(p)) : HasAt(s, p, i)}
    IN  IF hits = {} THEN -1 ELSE SetMax(hits)

Contains(s, p) == Find(s, p, 0) # -1

\* str.isspace() of one character, and the regex class \s
IsSpace(c) == c \in {" ", "\n", "\t", "\r"}

\* the regex class \w: every character of the model's alphabets that is
\* neither white space nor punctuation
IsWord(c) == c \notin {" ", "\n", "\t", "\r", "/", "*", "tick", "[", "]", ":",
                       "(", ")", "{", "}", ";", "."}

RECURSIVE lstrip(_)
lstrip(s) == IF s # <<>> /\ IsSpace(Head(s)) THEN lstrip(Tail(s)) ELSE s

RECURSIVE rstrip(_)
rstrip(s) ==
    IF s # <<>> /\ IsSpace(s[Len(s)]) THEN rstrip(SubSeq(s, 1, Len(s) - 1)) ELSE s

strip(s) == rstrip(lstrip(s))

\* "if line.strip()" is false
IsBlank(s) == strip(s) = <<>>

\* length of the run of characters of class \s starting at position i
RECURSIVE SpaceRun(_, _)
SpaceRun(s, i) ==
    IF i < Len(s) /\ IsSpace(s[i + 1]) THEN 1 + SpaceRun(s, i + 1) ELSE 0

\* length of the run of characters of class \w starting at position i
RECURSIVE WordRun(_, _)
WordRun(s, i) ==
    IF i < Len(s) /\ IsWord(s[i + 1]) THEN 1 + WordRun(s, i + 1) ELSE 0

\* str.splitlines(): breaks at \n, \r and \r\n, no empty last line (the
\* other line boundaries of Python, \v \f \x1c-\x1e \x85 \u2028 \u2029, are in
\* none of the alphabets used here)
RECURSIVE SplitFrom(_, _, _)
SplitFrom(s, from, i) ==
    IF i >= Len(s)
    THEN IF from < Len(s) THEN <<Slice(s, from, Len(s))>> ELSE <<>>
    ELSE IF s[i + 1] = "\r" /\ i + 1 < Len(s) /\ s[i + 2] = "\n"
         THEN <<Slice(s, from, i)>> \o SplitFrom(s, i + 2, i + 2)
         ELSE IF s[i + 1] \in {"\n", "\r"}
              THEN <<Slice(s, from, i)>> \o SplitFrom(s, i + 1, i + 1)
              ELSE SplitFrom(s, from, i + 1)

splitlines(s) == SplitFrom(s, 0, 0)

\* sep.join(parts)
RECURSIVE join(_, _)
join(sep, parts) ==
    IF parts = <<>> THEN <<>>
    ELSE IF Len(parts) = 1 THEN parts[1]
         ELSE parts[1] \o sep \o join(sep, Tail(parts))

\* str.replace(old, new), old not empty: left to right, without overlap
RECURSIVE ReplaceFrom(_, _, _, _)
ReplaceFrom(s, old, new, i) ==
    LET at == Find(s, old, i)
    IN  IF at = -1 THEN Slice(s, i, Len(s))
        ELSE Slice(s, i, at) \o new \o ReplaceFrom(s, old, new, at + Len(old))

replace(s, old, new) == ReplaceFrom(s, old, new, 0)

(***************************************************************************)
(* llm.py: extract_doc_comment                                             *)
(***************************************************************************)
StartMarker == <<"/", "*", "*">>
EndMarker == <<"*", "/">>

\* DocMatchEnd with a seeded fault: the match stops one character early
DocMatchEndOffByOne(text, i) ==
    IF ~HasAt(text, StartMarker, i) THEN -1
    ELSE LET e == Find(text, EndMarker, i + 3)
         IN  IF e = -1 THEN -1 ELSE e + 1

\* one match of /\*\*[\s\S]*?\*/ starting at i: the end (exclusive) of the
\* shortest match, or -1
DocMatchEnd(text, i) ==
    IF ~HasAt(text, StartMarker, i) THEN -1
    ELSE LET e == Find(text, EndMarker, i + 3)
         IN  IF e = -1 THEN -1 ELSE e + 2

\* re.finditer from pos: the leftmost match at or after pos, then on from
\* its end; the spans <<start, end>> in order
RECURSIVE DocFinditer(_, _)
DocFinditer(text, pos) ==
    LET starts == {i \in pos..Len(text) : DocMatchEnd(text, i) # -1}
    IN  IF starts = {} THEN <<>>
        ELSE LET s == SetMin(starts)
                 e == DocMatchEnd(text, s)
             IN  <<<<s, e>>>> \o DocFinditer(text, e)

\* extract_doc_comment with a seeded fault: matches[0] in place of matches[-1]
extract_first_match(text) ==
    LET matches == DocFinditer(text, 0)
    IN  IF matches # <<>>
        THEN Slice(text, matches[1][1], matches[1][2])
        ELSE LET start == RFind(text, StartMarker)
                 end == Find(text, EndMarker, start)
             IN  IF start # -1 /\ end # -1 THEN Slice(text, start, end + 2) ELSE text

\* extract_doc_comment with a seeded fault: nothing is returned when no block
\* was found
extract_or_empty(text) ==
    LET matches == DocFinditer(text, 0)
    IN  IF matches # <<>>
        THEN Slice(text, matches[Len(matches)][1], matches[Len(matches)][2])
        ELSE <<>>

\* extract_doc_comment with a seeded fault: the fallback span is cut at
\* end + 1 in place of end + 2
extract_short_fallback(text) ==
    LET matches == DocFinditer(text, 0)
    IN  IF matches # <<>>
        THEN Slice(text, matches[Len(matches)][1], matches[Len(matches)][2])
        ELSE LET start == RFind(text, StartMarker)
                 end == Find(text, EndMarker, start)
             IN  IF start # -1 /\ end # -1 THEN Slice(text, start, end + 1) ELSE text

extract_doc_comment(text) ==
    LET matches == DocFinditer(text, 0)
    IN  IF matches # <<>>
        THEN Slice(text, matches[Len(matches)][1], matches[Len(matches)][2])
        ELSE LET start == RFind(text, StartMarker)
                 end == Find(text, EndMarker, start)
             IN  IF start # -1 /\ end # -1 THEN Slice(text, start, end + 2) ELSE text

\* the print of llm.py:306 runs
extract_warns(text) == DocFinditer(text, 0) = <<>>

(***************************************************************************)
(* llm.py: insert_doc_comment                                              *)
(***************************************************************************)
\* the for/else of llm.py:318-323
RECURSIVE FirstIndent(_)
FirstIndent(lines) ==
    IF lines = <<>> THEN <<>>
    ELSE IF ~IsBlank(Head(lines))
         THEN SubSeq(Head(lines), 1, SpaceRun(Head(lines), 0))
         ELSE FirstIndent(Tail(lines))

\* FirstIndent with a seeded fault: the indent of the first line, blank or not
FirstLineIndent(lines) ==
    IF lines = <<>> THEN <<>>
    ELSE SubSeq(Head(lines), 1, SpaceRun(Head(lines), 0))

\* IndentLines with a seeded fault: every line is indented, blank or not
IndentEveryLine(indent, lines) == [i \in 1..Len(lines) |-> indent \o lines[i]]

IndentLines(indent, lines) ==
    [i \in 1..Len(lines) |-> IF ~IsBlank(lines[i]) THEN indent \o lines[i] ELSE lines[i]]

insert_doc_comment(method_code, doc) ==
    LET indent == FirstIndent(splitlines(method_code))
        doc_comment_indented == join(<<"\n">>, IndentLines(indent, splitlines(doc)))
    IN  doc_comment_indented \o <<"\n">> \o method_code

(***************************************************************************)
(* llm.py: DeepseekLLM.run (lines 257-271) and _extract_code_block         *)
(***************************************************************************)
DataPrefix == <<"d", "a", "t", "a", ":", " ">>
DataTag == <<"d", "a", "t", "a", ":">>
HNewline == <<"[", "h", "_", "n", "e", "w", "l", "i", "n", "e", "]">>
NewlineToken == <<"[", "n", "e", "w", "l", "i", "n", "e", "]">>
DoneToken == <<"[", "D", "O", "N", "E", "]">>
Fence == <<"tick", "tick", "tick">>
Java == <<"j", "a", "v", "a">>

\* llm.py:260-266: what one line adds to content_lines
ContentOf(line) ==
    IF ~startswith(line, DataPrefix) THEN <<>>
    ELSE LET content == Slice(line, Len(DataPrefix), Len(line))
         IN  IF strip(content) = HNewline THEN <<<<"\n">>>>
             ELSE IF strip(content) # <<>> /\ strip(content) \notin {DoneToken, NewlineToken}
                  THEN <<content>>
                  ELSE <<>>

RECURSIVE ContentLines(_)
ContentLines(lines) ==
    IF lines = <<>> THEN <<>> ELSE ContentOf(Head(lines)) \o ContentLines(Tail(lines))

\* llm.py:258-267
MergedOf(text) ==
    LET content_lines == ContentLines(splitlines(text))
    IN  IF content_lines # <<>> THEN join(<<>>, content_lines) ELSE text

\* re.search(r"```(\w+)?\n?([\s\S]+?)```", text) tried at position i: the
\* positions where group 2 can start, from which a closing fence follows
\* after at least one character.  The greedy (\w+)? and \n? give way one
\* character at a time, so the match takes the largest of them.
FenceBodyStarts(text, i) ==
    IF ~HasAt(text, Fence, i) THEN {}
    ELSE LET w == WordRun(text, i + 3)
             nl == IF HasAt(text, <<"\n">>, i + 3 + w) THEN 1 ELSE 0
         IN  {p \in (i + 3)..(i + 3 + w + nl) : Find(text, Fence, p + 1) # -1}

\* re.sub(r"^data:\s*", "", code, flags=re.MULTILINE) from position pos
RECURSIVE SubData(_, _)
SubData(code, pos) ==
    IF pos >= Len(code) THEN <<>>
    ELSE IF (pos = 0 \/ code[pos] = "\n") /\ HasAt(code, DataTag, pos)
         THEN SubData(code, pos + 5 + SpaceRun(code, pos + 5))
         ELSE <<code[pos + 1]>> \o SubData(code, pos + 1)

\* llm.py:291-297
Rewrap(lang, code) ==
    Fence \o lang \o <<"\n">>
        \o lstrip(SubData(replace(code, HNewline, <<"\n">>), 0))
        \o <<"\n">> \o Fence

\* llm.py:273-297
extract_code_block(text) ==
    LET starts == {i \in 0..Len(text) : FenceBodyStarts(text, i) # {}}
    IN  IF starts # {}
        THEN LET i == SetMin(starts)
                 p == SetMax(FenceBodyStarts(text, i))
                 w == WordRun(text, i + 3)
                 g1 == Slice(text, i + 3, IF p < i + 3 + w THEN p ELSE i + 3 + w)
                 q == Find(text, Fence, p + 1)
             IN  Rewrap(IF g1 # <<>> THEN g1 ELSE Java, Slice(text, p, q))
        ELSE LET w == WordRun(text, 0)
                 j == w + SpaceRun(text, w)
             IN  IF w >= 1 /\ HasAt(text, StartMarker, j) /\ Len(text) >= j + 4
                 THEN Rewrap(Slice(text, 0, w), Slice(text, j, Len(text)))
                 ELSE Rewrap(Java, text)

\* llm.py:257-271: what DeepseekLLM.run returns for response.text
DeepseekRun(text) ==
    LET merged == MergedOf(text)
        code_block == extract_code_block(merged)
    IN  IF code_block # <<>> THEN code_block ELSE merged

(***************************************************************************)
(* app.py: the state of run()                                              *)
(***************************************************************************)
\* dict[key] = value: a new key goes last, a known key keeps its place
DictSet(d, key, value) ==
    IF \E i \in 1..Len(d) : d[i][1] = key
    THEN [i \in 1..Len(d) |-> IF d[i][1] = key THEN <<key, value>> ELSE d[i]]
    ELSE Append(d, <<key, value>>)

DictHas(d, key) == \E i \in 1..Len(d) : d[i][1] = key

DictGet(d, key) == d[CHOOSE i \in 1..Len(d) : d[i][1] = key][2]

\* node.method_source_code of the node the loop stands at
method_source_code == treesitterNodes[idx].method_source_code

\* argparse's defaults: every flag off, so llm.LLM(local_model=...) is built
DefaultArgs ==
    [guided |-> FALSE, gpt4 |-> FALSE, gpt3_5_16k |-> FALSE,
     azure_deployment |-> FALSE, ollama_model |-> FALSE, sustech_deepseek |-> FALSE]

Node(has_doc, src, tokens) ==
    [doc_comment |-> has_doc, method_source_code |-> src, tokens |-> tokens]

\* two method sources and a file holding one after the other
SrcA == <<"a", ";">>
SrcB == <<" ", "b", ";">>
FileAB == SrcA \o <<"\n">> \o SrcB

(***************************************************************************)
(* app.py:147-157: the post-processing of one method                       *)
(***************************************************************************)
\* app.py:148-150
ExtractStep ==
    /\ pc = "extract"
    /\ doc_comment' = extract_doc_comment(documented_method_source_code)
    /\ stdout' = stdout
          \cup (IF extract_warns(documented_method_source_code)
                THEN {<<idx, "extract: not a standard doc comment">>} ELSE {})
          \cup (IF ~startswith(strip(doc_comment'), StartMarker)
                THEN {<<idx, "run: not a standard doc comment">>} ELSE {})
    /\ pc' = "insert"
    /\ UNCHANGED <<args, file_bytes, treesitterNodes, idx, response_text,
                   documented_method_source_code, merged_code,
                   generated_doc_comments, file_content, item, answers, llm_calls>>

\* app.py:152
InsertStep ==
    /\ pc = "insert"
    /\ merged_code' = insert_doc_comment(method_source_code, doc_comment)
    /\ pc' = "store"
    /\ UNCHANGED <<args, file_bytes, treesitterNodes, idx, response_text,
                   documented_method_source_code, doc_comment,
                   generated_doc_comments, file_content, item, answers, stdout, llm_calls>>

\* app.py:154-157, and on to the next node
StoreStep ==
    /\ pc = "store"
    /\ generated_doc_comments' =
           DictSet(generated_doc_comments, method_source_code, merged_code)
    /\ idx' = idx + 1
    /\ pc' = "loop"
    /\ UNCHANGED <<args, file_bytes, treesitterNodes, response_text,
                   documented_method_source_code, doc_comment, merged_code,
                   file_content, item, answers, stdout, llm_calls>>

PostNext == ExtractStep \/ InsertStep \/ StoreStep

(***************************************************************************)
(* Bounded inputs.                                                         *)
(***************************************************************************)
RECURSIVE Concat(_)
Concat(ps) == IF ps = <<>> THEN <<>> ELSE Head(ps) \o Concat(Tail(ps))

\* every concatenation of at most n pieces of P
TextsOf(P, n) == {Concat(ps) : ps \in UNION {[1..k -> P] : k \in 0..n}}

\* every string of at most n characters of A
StringsOf(A, n) == UNION {[1..k -> A] : k \in 0..n}

DocPieces == {StartMarker, EndMarker, <<"/">>, <<"*">>, <<"x">>}

(***************************************************************************)
(* extract_doc_comment on every bounded text: the chain backends hand      *)
(* their output to run() as it is, so any text reaches app.py:148.         *)
(***************************************************************************)
InitExtract ==
    /\ args = DefaultArgs
    /\ file_bytes = FileAB
    /\ treesitterNodes = <<Node(FALSE, SrcA, 1), Node(FALSE, SrcB, 1)>>
    /\ idx = 1
    /\ pc = "extract"
    /\ response_text = <<>>
    /\ documented_method_source_code \in TextsOf(DocPieces, MaxPieces)
    /\ doc_comment = <<>>
    /\ merged_code = <<>>
    /\ generated_doc_comments = <<>>
    /\ file_content = FileAB
    /\ item = 0
    /\ answers = <<>>
    /\ stdout = {}
    /\ llm_calls = <<1>>

SpecExtract == InitExtract /\ [][PostNext]_vars

(***************************************************************************)
(* The delimited blocks of a text as the claims describe them: walking     *)
(* left to right, a start marker that some end marker closes opens a       *)
(* block, the first end marker after it closes it, and the walk goes on    *)
(* behind the block.                                                       *)
(***************************************************************************)
ClosedAt(t, p) ==
    /\ HasAt(t, StartMarker, p)
    /\ \E j \in (p + 3)..(Len(t) - 2) : HasAt(t, EndMarker, j)

CloseOf(t, p) == 2 + SetMin({j \in (p + 3)..(Len(t) - 2) : HasAt(t, EndMarker, j)})

RECURSIVE ScanBlocks(_, _)
ScanBlocks(t, p) ==
    IF p >= Len(t) THEN <<>>
    ELSE IF ClosedAt(t, p)
         THEN <<Slice(t, p, CloseOf(t, p))>> \o ScanBlocks(t, CloseOf(t, p))
         ELSE ScanBlocks(t, p + 1)

HasCompleteBlock(t) == \E p \in 0..Len(t) : ClosedAt(t, p)

\* a start marker, the shortest run, an end marker
IsBlock(b) ==
    /\ Len(b) >= 5
    /\ startswith(b, StartMarker)
    /\ {j \in 3..(Len(b) - 2) : HasAt(b, EndMarker, j)} = {Len(b) - 2}

\* a canonical delimited comment: begins with the start marker, ends with
\* the end marker, and holds no other end marker
IsCanonical(t) ==
    /\ startswith(t, StartMarker)
    /\ {j \in 0..Len(t) : HasAt(t, EndMarker, j)} = {Len(t) - 2}

Extracted == pc \in {"insert", "store", "loop"}

\* C1: when the text holds complete delimited blocks, extract_doc_comment
\* returns the last block of the left-to-right scan; the result is a block,
\* no complete block lies behind it, and for a text that is two blocks A
\* then B the result is B.
LastBlockSelection ==
    LET t == documented_method_source_code
        blocks == ScanBlocks(t, 0)
    IN  (Extracted /\ HasCompleteBlock(t)) =>
            /\ blocks # <<>>
            /\ doc_comment = blocks[Len(blocks)]
            /\ IsBlock(doc_comment)
            /\ \E e \in 0..Len(t) :
                   /\ HasAt(t, doc_comment, e - Len(doc_comment))
                   /\ \A p \in e..Len(t) : ~ClosedAt(t, p)
            /\ \A n \in 5..(Len(t) - 5) :
                   (IsBlock(Slice(t, 0, n)) /\ IsBlock(Slice(t, n, Len(t))))
                       => doc_comment = Slice(t, n, Len(t))

\* C1 witness: a text of two different blocks in sequence, the second returned
LastBlockWitness ==
    LET t == documented_method_source_code
    IN  /\ Extracted
        /\ \E n \in 5..(Len(t) - 5) :
               /\ IsBlock(Slice(t, 0, n))
               /\ IsBlock(Slice(t, n, Len(t)))
               /\ Slice(t, 0, n) # Slice(t, n, Len(t))
               /\ doc_comment = Slice(t, n, Len(t))

\* C7: a canonical delimited comment is returned as it is, and what
\* extract_doc_comment returned for a text with a complete block is returned
\* again when extracted once more.
IdempotentReExtraction ==
    LET t == documented_method_source_code
    IN  Extracted =>
            /\ IsCanonical(t) => doc_comment = t
            /\ HasCompleteBlock(t) => extract_doc_comment(doc_comment) = doc_comment

\* C7 witness: a canonical comment with a body went through and came back whole
IdempotentWitness ==
    /\ Extracted
    /\ IsCanonical(documented_method_source_code)
    /\ Len(documented_method_source_code) > 5
    /\ doc_comment = documented_method_source_code

\* C5: a text without any start marker comes back unchanged with the
\* warning printed, and the driver goes on: it builds the merged text,
\* stores the patch entry under the method's source and moves to the next
\* node.
FallbackPassthrough ==
    LET t == documented_method_source_code
        src == treesitterNodes[1].method_source_code
    IN  ~Contains(t, StartMarker) =>
            /\ Extracted =>
                   /\ doc_comment = t
                   /\ <<1, "extract: not a standard doc comment">> \in stdout
            /\ pc \in {"store", "loop"} =>
                   /\ endswith(merged_code, <<"\n">> \o src)
                   /\ Len(merged_code) >= Len(t) + 1 + Len(src)
            /\ pc = "loop" =>
                   /\ idx = 2
                   /\ DictHas(generated_doc_comments, src)
                   /\ DictGet(generated_doc_comments, src) = merged_code
            /\ pc # "loop" => ENABLED PostNext

\* C5 witness: a text with an end marker but no start marker was passed
\* through, and its patch entry is stored
FallbackWitness ==
    /\ pc = "loop"
    /\ ~Contains(documented_method_source_code, StartMarker)
    /\ Contains(documented_method_source_code, EndMarker)
    /\ doc_comment = documented_method_source_code
    /\ Len(generated_doc_comments) = 1

(***************************************************************************)
(* insert_doc_comment on every bounded method source and doc comment: the  *)
(* state of run() at app.py:152, after a text without start marker went    *)
(* through extract_doc_comment unchanged.                                  *)
(***************************************************************************)
InitInsert ==
    /\ args = DefaultArgs
    /\ \E src \in StringsOf({" ", "\t", "\n", "a"}, MaxSrcLen) :
           /\ file_bytes = src \o <<"\n">> \o SrcB
           /\ treesitterNodes = <<Node(FALSE, src, 1), Node(FALSE, SrcB, 1)>>
    /\ idx = 1
    /\ pc = "insert"
    /\ response_text = <<>>
    /\ documented_method_source_code \in StringsOf({" ", "\n", "a"}, MaxDocLen)
    /\ doc_comment = documented_method_source_code
    /\ merged_code = <<>>
    /\ generated_doc_comments = <<>>
    /\ file_content = file_bytes
    /\ item = 0
    /\ answers = <<>>
    /\ stdout = {<<1, "extract: not a standard doc comment">>,
                 <<1, "run: not a standard doc comment">>}
    /\ llm_calls = <<1>>

InsertNext == InsertStep \/ StoreStep

SpecInsert == InitInsert /\ [][InsertNext]_vars

\* the leading white space of the first line of src that holds a character
\* other than white space; empty when there is no such line
IndentOf(src) ==
    LET ls == splitlines(src)
        nonblank == {i \in 1..Len(ls) : \E j \in 1..Len(ls[i]) : ~IsSpace(ls[i][j])}
    IN  IF nonblank = {} THEN <<>>
        ELSE LET l == ls[SetMin(nonblank)]
                 k == SetMin({j \in 1..Len(l) : ~IsSpace(l[j])})
             IN  SubSeq(l, 1, k - 1)

\* str.split("\n")
RECURSIVE SplitNL(_)
SplitNL(s) ==
    LET at == Find(s, <<"\n">>, 0)
    IN  IF at = -1 THEN <<s>>
        ELSE <<Slice(s, 0, at)>> \o SplitNL(Slice(s, at + 1, Len(s)))

Inserted == pc \in {"store", "loop"}

\* what stands before the newline and the method source in merged_code
CommentPart ==
    SubSeq(merged_code, 1, Len(merged_code) - Len(treesitterNodes[1].method_source_code) - 1)

\* C4: merged_code ends with one newline and the method source as it was;
\* before that stand the lines of the doc comment, each non-blank line
\* prefixed with the indent of the source's first non-blank line and each
\* blank line as it was.
IndentationPreserved ==
    LET src == treesitterNodes[1].method_source_code
        indent == IndentOf(src)
        dl == splitlines(doc_comment)
        cl == SplitNL(CommentPart)
    IN  Inserted =>
            /\ endswith(merged_code, <<"\n">> \o src)
            /\ \A i \in 1..Len(cl) : ~IsBlank(cl[i]) => startswith(cl[i], indent)
            /\ IF dl = <<>> THEN CommentPart = <<>>
               ELSE /\ Len(cl) = Len(dl)
                    /\ \A i \in 1..Len(dl) :
                           cl[i] = IF IsBlank(dl[i]) THEN dl[i] ELSE indent \o dl[i]

\* C4 witness: the source's first line is blank and its second is indented,
\* and the comment has a non-blank line and a blank line that is not empty
IndentationWitness ==
    LET src == treesitterNodes[1].method_source_code
        dl == splitlines(doc_comment)
    IN  /\ Inserted
        /\ IndentOf(src) # <<>>
        /\ Len(splitlines(src)) >= 2
        /\ IsBlank(splitlines(src)[1])
        /\ \E i, j \in 1..Len(dl) : ~IsBlank(dl[i]) /\ IsBlank(dl[j]) /\ dl[j] # <<>>

(***************************************************************************)
(* DeepseekLLM.run after the request: llm.py:257-271 turns response.text   *)
(* into what generate_doc_comment returns.                                 *)
(***************************************************************************)
NormalizeStep ==
    /\ pc = "normalize"
    /\ documented_method_source_code' = DeepseekRun(response_text)
    /\ pc' = "extract"
    /\ UNCHANGED <<args, file_bytes, treesitterNodes, idx, response_text, doc_comment,
                   merged_code, generated_doc_comments, file_content, item, answers,
                   stdout, llm_calls>>

LinePieces == {DataPrefix, DoneToken, NewlineToken, HNewline, Fence, <<"x">>, <<" ">>}

\* the fragments 'data: public ', 'data: void', 'data: [h_newline]', 'data: foo(){}'
StreamExample ==
    join(<<"\n">>,
         <<DataPrefix \o <<"p", "u", "b", "l", "i", "c", " ">>,
           DataPrefix \o <<"v", "o", "i", "d">>,
           DataPrefix \o HNewline,
           DataPrefix \o <<"f", "o", "o", "(", ")", "{", "}">>>>)

\* every response of 1..MaxLines lines of at most MaxLinePieces pieces each
Responses ==
    {join(<<"\n">>, ls) :
        ls \in UNION {[1..n -> TextsOf(LinePieces, MaxLinePieces)] : n \in 1..MaxLines}}
    \cup {StreamExample}

InitNormalize ==
    /\ args = [DefaultArgs EXCEPT !.sustech_deepseek = TRUE]
    /\ file_bytes = FileAB
    /\ treesitterNodes = <<Node(FALSE, SrcA, 1), Node(FALSE, SrcB, 1)>>
    /\ idx = 1
    /\ pc = "normalize"
    /\ response_text \in Responses
    /\ documented_method_source_code = <<>>
    /\ doc_comment = <<>>
    /\ merged_code = <<>>
    /\ generated_doc_comments = <<>>
    /\ file_content = FileAB
    /\ item = 0
    /\ answers = <<>>
    /\ stdout = {}
    /\ llm_calls = <<1>>

SpecNormalize == InitNormalize /\ [][NormalizeStep]_vars

\* the payload of a 'data: ' fragment
Payload(line) == Slice(line, Len(DataPrefix), Len(line))

\* a response of 'data: '-prefixed fragments only, each a content fragment
\* or the newline marker, and no code fence anywhere
IsFragmentStream(resp) ==
    LET ls == SplitNL(resp)
    IN  /\ ~Contains(resp, Fence)
        /\ \A i \in 1..Len(ls) :
               /\ startswith(ls[i], DataPrefix)
               /\ ~IsBlank(Payload(ls[i]))
               /\ strip(Payload(ls[i])) \notin {DoneToken, NewlineToken}

\* the payloads in arrival order, the newline marker as one newline
Reassembled(resp) ==
    LET ls == SplitNL(resp)
    IN  Concat([i \in 1..Len(ls) |->
                   IF Payload(ls[i]) = HNewline THEN <<"\n">> ELSE Payload(ls[i])])

\* C3: for a stream of 'data: ' fragments without a code fence, normalization
\* yields exactly the payloads concatenated in arrival order, each
\* '[h_newline]' fragment as one newline.
StreamedReassembly ==
    (pc = "extract" /\ IsFragmentStream(response_text))
        => documented_method_source_code = Reassembled(response_text)

\* C8: the normalized text has no line that begins with 'data:' and holds
\* none of the control payloads '[DONE]', '[newline]', '[h_newline]'.
NoResidualFraming ==
    LET ls == SplitNL(documented_method_source_code)
    IN  pc = "extract" =>
            /\ \A i \in 1..Len(ls) : ~startswith(ls[i], DataTag)
            /\ ~Contains(documented_method_source_code, DoneToken)
            /\ ~Contains(documented_method_source_code, NewlineToken)
            /\ ~Contains(documented_method_source_code, HNewline)

(***************************************************************************)
(* app.py:80-141: the backend run() builds and the gate before the call    *)
(***************************************************************************)
\* app.py:80-94: the first flag of the elif chain that is set decides
Backend(a) ==
    IF a.azure_deployment THEN "azure"
    ELSE IF a.gpt4 THEN "gpt4"
    ELSE IF a.gpt3_5_16k THEN "gpt3_5_16k"
    ELSE IF a.ollama_model THEN "ollama"
    ELSE IF a.sustech_deepseek THEN "sustech-deepseek"
    ELSE "local"

\* llm.py:52-59, 104: only LLM(model="sustech-deepseek") sets is_deepseek
is_deepseek == Backend(args) = "sustech-deepseek"

\* app.py:127
TokenLimit == 2048

\* app.py:126-134: "has too many tokens. Skipping for now..."
TooManyTokens(node) == node.tokens > TokenLimit /\ ~(args.gpt4 \/ args.gpt3_5_16k)

\* app.py:110, 124: the loop has a node to work on
AtNode == pc = "loop" /\ idx <= Len(treesitterNodes)

\* app.py:113-117
SkipDocComment ==
    /\ AtNode
    /\ treesitterNodes[idx].doc_comment
    /\ idx' = idx + 1
    /\ UNCHANGED <<args, file_bytes, treesitterNodes, pc, response_text,
                   documented_method_source_code, doc_comment, merged_code,
                   generated_doc_comments, file_content, item, answers, stdout,
                   llm_calls>>

\* app.py:119-122: input() is not "y"
SkipDeclined ==
    /\ AtNode
    /\ ~treesitterNodes[idx].doc_comment
    /\ args.guided
    /\ answers' = Append(answers, <<idx, "n">>)
    /\ idx' = idx + 1
    /\ UNCHANGED <<args, file_bytes, treesitterNodes, pc, response_text,
                   documented_method_source_code, doc_comment, merged_code,
                   generated_doc_comments, file_content, item, stdout, llm_calls>>

\* app.py:119-134: input() is "y" when asked, and the method is too long
SkipTokens ==
    /\ AtNode
    /\ ~treesitterNodes[idx].doc_comment
    /\ answers' = IF args.guided THEN Append(answers, <<idx, "y">>) ELSE answers
    /\ TooManyTokens(treesitterNodes[idx])
    /\ idx' = idx + 1
    /\ UNCHANGED <<args, file_bytes, treesitterNodes, pc, response_text,
                   documented_method_source_code, doc_comment, merged_code,
                   generated_doc_comments, file_content, item, stdout, llm_calls>>

\* app.py:119-141, llm.py:104-107: the call of generate_doc_comment
Invoke ==
    /\ AtNode
    /\ ~treesitterNodes[idx].doc_comment
    /\ answers' = IF args.guided THEN Append(answers, <<idx, "y">>) ELSE answers
    /\ ~TooManyTokens(treesitterNodes[idx])
    /\ llm_calls' = Append(llm_calls, idx)
    /\ pc' = IF is_deepseek THEN "post" ELSE "chain"
    /\ UNCHANGED <<args, file_bytes, treesitterNodes, idx, response_text,
                   documented_method_source_code, doc_comment, merged_code,
                   generated_doc_comments, file_content, item, stdout>>

\* llm.py:248-255: requests.post or raise_for_status raises; run returns ""
PostFails ==
    /\ pc = "post"
    /\ documented_method_source_code' = <<>>
    /\ stdout' = stdout \cup {<<idx, "Deepseek request failed">>}
    /\ pc' = "extract"
    /\ UNCHANGED <<args, file_bytes, treesitterNodes, idx, response_text, doc_comment,
                   merged_code, generated_doc_comments, file_content, item, answers,
                   llm_calls>>

\* what the Deepseek endpoint answers in the driver's runs
DriverResponses ==
    {DataPrefix \o StartMarker \o <<"x">> \o EndMarker, <<"x">>}

\* llm.py:249-252: the request succeeds
PostResponds ==
    /\ pc = "post"
    /\ response_text' \in DriverResponses
    /\ pc' = "normalize"
    /\ UNCHANGED <<args, file_bytes, treesitterNodes, idx,
                   documented_method_source_code, doc_comment, merged_code,
                   generated_doc_comments, file_content, item, answers, stdout,
                   llm_calls>>

\* what a langchain chain answers in the driver's runs
ChainOutputs == {StartMarker \o <<"x">> \o EndMarker, <<"x">>}

\* llm.py:107-108: self.chain.run(input) returns
ChainReturns ==
    /\ pc = "chain"
    /\ documented_method_source_code' \in ChainOutputs
    /\ pc' = "extract"
    /\ UNCHANGED <<args, file_bytes, treesitterNodes, idx, response_text, doc_comment,
                   merged_code, generated_doc_comments, file_content, item, answers,
                   stdout, llm_calls>>

\* llm.py:107: self.chain.run(input) raises; nothing between it and the top
\* of run() catches, so the process ends with the file as it was
ChainRaises ==
    /\ pc = "chain"
    /\ pc' = "crashed"
    /\ UNCHANGED <<args, file_bytes, treesitterNodes, idx, response_text,
                   documented_method_source_code, doc_comment, merged_code,
                   generated_doc_comments, file_content, item, answers, stdout,
                   llm_calls>>

\* app.py:110, 159-161: no node is left
LoopEnds ==
    /\ pc = "loop"
    /\ idx > Len(treesitterNodes)
    /\ pc' = "patch"
    /\ item' = 1
    /\ UNCHANGED <<args, file_bytes, treesitterNodes, idx, response_text,
                   documented_method_source_code, doc_comment, merged_code,
                   generated_doc_comments, file_content, answers, stdout, llm_calls>>

(***************************************************************************)
(* app.py:161-164: the patches are written one after another               *)
(***************************************************************************)
\* utils.write_code_snippet_to_file: every literal occurrence of
\* original_code in the file becomes modified_code
write_code_snippet_to_file(content, original_code, modified_code) ==
    replace(content, original_code, modified_code)

\* WritePatch with a seeded fault: the two code arguments are passed the
\* other way round
WritePatchSwapped ==
    /\ pc = "patch"
    /\ item <= Len(generated_doc_comments)
    /\ file_content' = write_code_snippet_to_file(file_content,
                           generated_doc_comments[item][2], generated_doc_comments[item][1])
    /\ item' = item + 1
    /\ UNCHANGED <<args, file_bytes, treesitterNodes, idx, pc, response_text,
                   documented_method_source_code, doc_comment, merged_code,
                   generated_doc_comments, answers, stdout, llm_calls>>

\* app.py:161-164: one turn of the loop
WritePatch ==
    /\ pc = "patch"
    /\ item <= Len(generated_doc_comments)
    /\ file_content' = write_code_snippet_to_file(file_content,
                           generated_doc_comments[item][1], generated_doc_comments[item][2])
    /\ item' = item + 1
    /\ UNCHANGED <<args, file_bytes, treesitterNodes, idx, pc, response_text,
                   documented_method_source_code, doc_comment, merged_code,
                   generated_doc_comments, answers, stdout, llm_calls>>

\* app.py:161-164: the loop is over and run() returns
Finish ==
    /\ pc = "patch"
    /\ item > Len(generated_doc_comments)
    /\ pc' = "done"
    /\ UNCHANGED <<args, file_bytes, treesitterNodes, idx, response_text,
                   documented_method_source_code, doc_comment, merged_code,
                   generated_doc_comments, file_content, item, answers, stdout,
                   llm_calls>>

(***************************************************************************)
(* run() from its start.                                                   *)
(***************************************************************************)
ArgSets ==
    [guided : BOOLEAN, gpt4 : BOOLEAN, gpt3_5_16k : BOOLEAN,
     azure_deployment : BOOLEAN, ollama_model : BOOLEAN, sustech_deepseek : BOOLEAN]

\* utils.count_tokens of the two sources: one at the limit, one above it
TokensOf(src) == IF src = SrcA THEN TokenLimit ELSE TokenLimit + 1

\* the parser's answers: 1..MaxMethods methods, with or without doc comment
NodeLists ==
    UNION {[1..n -> {Node(d, src, TokensOf(src)) : d \in BOOLEAN, src \in {SrcA, SrcB}}] :
              n \in 1..MaxMethods}

Init ==
    /\ args \in ArgSets
    /\ treesitterNodes \in NodeLists
    /\ file_bytes = join(<<"\n">>, [i \in 1..Len(treesitterNodes) |->
                                        treesitterNodes[i].method_source_code])
    /\ idx = 1
    /\ pc = "loop"
    /\ response_text = <<>>
    /\ documented_method_source_code = <<>>
    /\ doc_comment = <<>>
    /\ merged_code = <<>>
    /\ generated_doc_comments = <<>>
    /\ file_content = file_bytes
    /\ item = 0
    /\ answers = <<>>
    /\ stdout = {}
    /\ llm_calls = <<>>

Next ==
    \/ SkipDocComment
    \/ SkipDeclined
    \/ SkipTokens
    \/ Invoke
    \/ PostFails
    \/ PostResponds
    \/ NormalizeStep
    \/ ChainReturns
    \/ ChainRaises
    \/ ExtractStep
    \/ InsertStep
    \/ StoreStep
    \/ LoopEnds
    \/ WritePatch
    \/ Finish

Spec == Init /\ [][Next]_vars

\* C6: a failed model invocation aborts nothing and leaves no patch entry
\* for its method: run() never ends in the exception, and a method whose
\* Deepseek request failed (and whose source no other invoked method
\* shares) has no entry once the loop has left it.
BackendFailureIsLocal ==
    /\ pc # "crashed"
    /\ \A i \in 1..Len(treesitterNodes) :
           (/\ <<i, "Deepseek request failed">> \in stdout
            /\ (idx > i \/ pc \in {"patch", "done"})
            /\ \A k \in 1..Len(llm_calls) :
                   llm_calls[k] # i =>
                       treesitterNodes[llm_calls[k]].method_source_code
                           # treesitterNodes[i].method_source_code)
               => ~DictHas(generated_doc_comments, treesitterNodes[i].method_source_code)

\* the selected backend's token budget as the driver applies it: the two
\* large-context models have none, every other backend has TokenLimit
ExceedsBudget(node) ==
    Backend(args) \notin {"gpt4", "gpt3_5_16k"} /\ node.tokens > TokenLimit

\* C10: every method handed to the model has no doc comment, was not
\* declined, and is within the selected backend's token budget; and every
\* patch entry belongs to a method that was handed to the model.
GatingOfModelCall ==
    /\ \A k \in 1..Len(llm_calls) :
           LET i == llm_calls[k]
           IN  /\ ~treesitterNodes[i].doc_comment
               /\ \A a \in 1..Len(answers) : answers[a] # <<i, "n">>
               /\ ~ExceedsBudget(treesitterNodes[i])
    /\ \A e \in 1..Len(generated_doc_comments) :
           \E k \in 1..Len(llm_calls) :
               treesitterNodes[llm_calls[k]].method_source_code
                   = generated_doc_comments[e][1]

(***************************************************************************)
(* The patch loop on every bounded file and patch set: the state of run()  *)
(* at app.py:161, after a loop in which every method got its entry.        *)
(***************************************************************************)
Substrings(f) == {Slice(f, a, b) : a \in 0..(Len(f) - 1), b \in 1..Len(f)} \ {<<>>}

\* the doc comments behind the entries: a block, and a text passed through
PatchDocs == {StartMarker \o EndMarker, <<"b">>}

\* method sources with their doc comments, no source twice (dict keys)
EntryLists(f) ==
    {es \in UNION {[1..n -> Substrings(f) \X PatchDocs] : n \in 1..MaxMethods} :
        \A i, j \in 1..Len(es) : es[i][1] = es[j][1] => i = j}

InitPatch ==
    /\ args = DefaultArgs
    /\ file_bytes \in StringsOf({"a", "b"}, MaxFileLen) \ {<<>>}
    /\ \E es \in EntryLists(file_bytes) :
           /\ treesitterNodes = [i \in 1..Len(es) |-> Node(FALSE, es[i][1], 1)]
           /\ generated_doc_comments =
                  [i \in 1..Len(es) |-> <<es[i][1], insert_doc_comment(es[i][1], es[i][2])>>]
           /\ documented_method_source_code = es[Len(es)][2]
           /\ doc_comment = es[Len(es)][2]
           /\ merged_code = insert_doc_comment(es[Len(es)][1], es[Len(es)][2])
           /\ stdout = UNION {{<<i, "extract: not a standard doc comment">>,
                               <<i, "run: not a standard doc comment">>} :
                                  i \in {j \in 1..Len(es) : es[j][2] = <<"b">>}}
    /\ idx = Len(treesitterNodes) + 1
    /\ pc = "patch"
    /\ response_text = <<>>
    /\ file_content = file_bytes
    /\ item = 1
    /\ answers = <<>>
    /\ llm_calls = [i \in 1..Len(treesitterNodes) |-> i]

PatchNext == WritePatch \/ Finish

SpecPatch == InitPatch /\ [][PatchNext]_vars

\* every position where o occurs in c
Places(c, o) == {i \in 0..(Len(c) - Len(o)) : HasAt(c, o, i)}

\* the occurrences of o in c found from left to right, each search starting
\* behind the occurrence before
RECURSIVE ScanPlaces(_, _, _)
ScanPlaces(c, o, from) ==
    LET later == {i \in Places(c, o) : i >= from}
    IN  IF later = {} THEN <<>>
        ELSE <<SetMin(later)>> \o ScanPlaces(c, o, SetMin(later) + Len(o))

\* the places of S in ascending order
RECURSIVE Ascending(_)
Ascending(S) == IF S = {} THEN <<>> ELSE <<SetMin(S)>> \o Ascending(S \ {SetMin(S)})

\* c2 holds m where the k-th of the places ps of o in c was, each place
\* before it having grown from o to m
MergedAtPlaces(c2, o, m, ps) ==
    \A k \in 1..Len(ps) : HasAt(c2, m, ps[k] + (k - 1) * (Len(m) - Len(o)))

\* the occurrence of o at j in c2 lies inside one of the inserted m
InsideInserted(j, o, m, ps) ==
    \E k \in 1..Len(ps) :
        LET at == ps[k] + (k - 1) * (Len(m) - Len(o))
        IN  at <= j /\ j + Len(o) <= at + Len(m)

\* the occurrence of o at j in c2 shares a character with an inserted m
TouchesInserted(j, o, m, ps) ==
    \E k \in 1..Len(ps) :
        LET at == ps[k] + (k - 1) * (Len(m) - Len(o))
        IN  j < at + Len(m) /\ at < j + Len(o)

RECURSIVE ContentAfter(_)
ContentAfter(k) ==
    IF k = 0 THEN file_bytes
    ELSE replace(ContentAfter(k - 1), generated_doc_comments[k][1],
                 generated_doc_comments[k][2])

\* at each entry's turn its originalText still occurs in the content, and
\* none of its occurrences shares a character with a mergedText of an
\* earlier entry
Undisturbed ==
    \A k \in 1..Len(generated_doc_comments) :
        LET c == ContentAfter(k - 1)
            o == generated_doc_comments[k][1]
        IN  /\ Places(c, o) # {}
            /\ \A j \in 1..(k - 1) :
                   LET m == generated_doc_comments[j][2]
                   IN  \A p \in Places(c, o), q \in Places(c, m) :
                           p + Len(o) <= q \/ q + Len(m) <= p

AllMergedPresent ==
    \A e \in 1..Len(generated_doc_comments) :
        Contains(file_content, generated_doc_comments[e][2])

EmptyComment == <<"/", "*", "*", "/">>

\* C11: extract_doc_comment returns the whole text or a contiguous part of
\* it that begins with the start marker and ends with the end marker; for a
\* text without a complete block it returns '/**/', taken at the last start
\* marker, exactly when a '/' follows that marker, and the whole text in
\* every other case.
ExtractorResultShape ==
    LET t == documented_method_source_code
        marks == Places(t, StartMarker)
    IN  Extracted =>
            /\ \/ doc_comment = t
               \/ /\ Places(t, doc_comment) # {}
                  /\ startswith(doc_comment, StartMarker)
                  /\ endswith(doc_comment, EndMarker)
            /\ ~HasCompleteBlock(t) =>
                   IF marks # {} /\ HasAt(t, <<"/">>, SetMax(marks) + 3)
                   THEN doc_comment = EmptyComment /\ HasAt(t, doc_comment, SetMax(marks))
                   ELSE doc_comment = t

\* C11 witness: a longer text without a complete block whose last start
\* marker is followed by '/', and '/**/' came back
ExtractorShapeWitness ==
    /\ Extracted
    /\ ~HasCompleteBlock(documented_method_source_code)
    /\ doc_comment = EmptyComment
    /\ Len(documented_method_source_code) > 4
    /\ ~startswith(documented_method_source_code, StartMarker)

====
